---- MODULE Spec2Model ----
(***************************************************************************)
(* Question/answer extraction for Tibetan documents (package TibQA).       *)
(*                                                                         *)
(* Eight extractors read the paragraphs of one document and fill a list   *)
(* of question entries and a list of answer entries:                       *)
(*   R  qa.py          one regular expression over the whole text: question*)
(*                     keyword, question, answer keyword, answer           *)
(*   A  qa_2.py        a line that starts with Tibetan digits is a question*)
(*   B  qa_3.py        digits start a question, the keyword an answer      *)
(*   C  qa_4.py        the sentinel glyph starts a question, a phrase an   *)
(*                     answer                                              *)
(*   D  qa_5.py        a line that is one alphabet glyph starts a question *)
(*   E  qa_6.py        a bracketed numeral anywhere starts a question      *)
(*   F  qa_7.py        "<digits>." starts a question, the keyword an answer*)
(*   G  html_parser.py every unit is a question or an answer by itself     *)
(* The two lists are written to <base>_questions.txt / <base>_answers.txt  *)
(* and combine_q_n_a.py reads every such pair of the output directory back *)
(* into corpus records.  Opening the document and each of the two writes   *)
(* can fail.                                                               *)
(*                                                                         *)
(* Spec is one extractor on one document, its saves, reruns and the        *)
(* aggregator.  NormSpec applies the question normalizers alone, EncSpec   *)
(* the copies of the numeral encoder, and DriverSpec lets an outer driver  *)
(* run the parse of one document beside the parse of another.              *)
(*                                                                         *)
(* Text is a sequence of one-character strings.  The Tibetan glyphs the    *)
(* code tests for are written with these stand-ins:                        *)
(*   "t0".."t9"  the Tibetan digits U+0F20..U+0F29                         *)
(*   "0".."9"    the ASCII digits                                          *)
(*   ")"  U+0F3D (closing bracket)     "("  U+0F3C (opening bracket)        *)
(*   "'"  U+0F0B (tseg)                "|"  U+0F0D (shey)                   *)
(*   "*"  U+0F08 (sentinel that opens a question in qa_4.py)               *)
(*   " "  space                        "nl" line feed                      *)
(*   letters     Tibetan letters of the range U+0F40..U+0F68; the keyword  *)
(*               U+0F63 U+0F53 U+0F0D is "L" "N" "|"                       *)
(***************************************************************************)
EXTENDS Integers, Sequences, FiniteSets, TLC

\* ------------------------------------------------------------------ bounds
\* longest document, in paragraphs
MaxLines == 4
\* how many times the same processor object is run on the document
MaxRuns == 2
\* longest text handed to a normalizer in NormSpec
MaxTextLen == 3
\* largest number handed to the numeral encoders in EncSpec
MaxNumber == 1100
\* longest document an outer driver runs beside another one in DriverSpec,
\* and longest document it runs it beside
MaxDriverLines == 2
MaxOtherLines == 1

\* ------------------------------------------------------------- characters
SP == " "
NL == "nl"
CB == ")"
OB == "("
TSEG == "'"
SHEY == "|"
YIGMGO == "*"
DOT == "."

\* what Python's str.strip() and the regex class \s remove
Whitespace == {SP, NL}

\* TIBETAN_DIGITS, index 0..9 (TLA+ sequences start at 1)
TIBETAN_DIGITS == <<"t0", "t1", "t2", "t3", "t4", "t5", "t6", "t7", "t8", "t9">>
ASCII_DIGITS == <<"0", "1", "2", "3", "4", "5", "6", "7", "8", "9">>

\* the regex class [U+0F20-U+0F29]
IsTibDigit(c) == \E i \in 1..10 : TIBETAN_DIGITS[i] = c
\* the regex class \d on a str pattern: every Unicode decimal digit
IsDecimalDigit(c) == IsTibDigit(c) \/ \E i \in 1..10 : ASCII_DIGITS[i] = c
\* the regex class [U+0F40-U+0F68]: the letters of the script
TibLetters == {"K", "L", "N", "D", "A", "a", "b", "c", "d"}
IsTibLetter(c) == c \in TibLetters

\* the answer keyword of qa_3.py, qa_7.py and html_parser.py
LAN == <<"L", "N", SHEY>>
\* answer_prefix of qa_2.py: the keyword and one space
LAN_SP == <<"L", "N", SHEY, SP>>
\* the question keyword of qa.py (subjoined letter and vowel sign left out)
DRI_BA == <<"D", TSEG, "b", SHEY>>
\* the two answer phrases of qa_4.py (vowel signs left out): both contain
\* tsegs and end with a shey
DEI_LAN_NI == <<"D", "A", TSEG, "L", "N", TSEG, "N", SHEY>>
DEI_DON_NI == <<"D", "A", TSEG, "D", "N", TSEG, "N", SHEY>>

\* --------------------------------------------------------- string helpers
\* s[i:] of Python, i counted from 1
From(s, i) == SubSeq(s, i, Len(s))

StartsWith(s, p) == Len(s) >= Len(p) /\ SubSeq(s, 1, Len(p)) = p

RECURSIVE LStrip(_)
LStrip(s) ==
    IF s # << >> /\ Head(s) \in Whitespace THEN LStrip(Tail(s)) ELSE s

RECURSIVE RStrip(_)
RStrip(s) ==
    IF s # << >> /\ s[Len(s)] \in Whitespace
    THEN RStrip(SubSeq(s, 1, Len(s) - 1))
    ELSE s

\* str.strip()
Strip(s) == RStrip(LStrip(s))

\* the rest of s after a leading [U+0F20-U+0F29]* run
RECURSIVE DropTibDigits(_)
DropTibDigits(s) ==
    IF s # << >> /\ IsTibDigit(Head(s)) THEN DropTibDigits(Tail(s)) ELSE s

\* the rest of s after a leading \d* run
RECURSIVE DropDecimalDigits(_)
DropDecimalDigits(s) ==
    IF s # << >> /\ IsDecimalDigit(Head(s)) THEN DropDecimalDigits(Tail(s)) ELSE s

\* position of the first occurrence of sub in s, 0 when there is none
RECURSIVE FindFrom(_, _, _)
FindFrom(s, sub, i) ==
    IF i + Len(sub) - 1 > Len(s) THEN 0
    ELSE IF SubSeq(s, i, i + Len(sub) - 1) = sub THEN i
    ELSE FindFrom(s, sub, i + 1)

Find(s, sub) == FindFrom(s, sub, 1)

\* sub in s
Contains(s, sub) == Find(s, sub) # 0

\* s.replace(sub, ""): every occurrence, left to right, not overlapping
RECURSIVE RemoveAll(_, _)
RemoveAll(s, sub) ==
    IF sub = << >> \/ Find(s, sub) = 0 THEN s
    ELSE LET i == Find(s, sub)
         IN SubSeq(s, 1, i - 1) \o RemoveAll(From(s, i + Len(sub)), sub)

\* sep.join(list)
RECURSIVE Join(_, _)
Join(list, sep) ==
    IF list = << >> THEN << >>
    ELSE IF Len(list) = 1 THEN list[1]
    ELSE list[1] \o sep \o Join(Tail(list), sep)

\* s.split(sep, 1)[1] for a one-character sep that occurs in s
AfterFirst(s, c) == From(s, Find(s, <<c>>) + 1)

\* s.split(" ", 1)[-1]: the whole of s when it holds no space
SplitLast(s) == IF Contains(s, <<SP>>) THEN AfterFirst(s, SP) ELSE s

\* --------------------------------------------------------- numeral encoder
\* str(num): the decimal digits of num, most significant first
RECURSIVE DecimalDigits(_)
DecimalDigits(n) ==
    IF n < 10 THEN <<n>> ELSE DecimalDigits(n \div 10) \o <<n % 10>>

\* an encoder that writes the digits least significant first
MapDigitsReversed(alphabet, num) ==
    LET ds == DecimalDigits(num)
    IN [j \in 1..Len(ds) |-> alphabet[ds[Len(ds) + 1 - j] + 1]]

\* "".join(alphabet[int(d)] for d in str(num))
MapDigits(alphabet, num) ==
    LET ds == DecimalDigits(num)
    IN [j \in 1..Len(ds) |-> alphabet[ds[j] + 1]]

\* f"{counter}" of qa_4.py and qa_5.py: the index in ASCII digits
PyStr(num) == MapDigits(ASCII_DIGITS, num)

\* an encoder that is one place off in the digit alphabet
IntToTibetanShifted(num) ==
    LET ds == DecimalDigits(num)
    IN [j \in 1..Len(ds) |-> TIBETAN_DIGITS[((ds[j] + 1) % 10) + 1]]

\* qa_2.py
int_to_tibetan_numeral(num) == MapDigits(TIBETAN_DIGITS, num)
\* qa_3.py
int_to_tibetan_numeral_qa3(num) == MapDigits(TIBETAN_DIGITS, num)
\* qa_6.py
int_to_tibetan(num) == MapDigits(TIBETAN_DIGITS, num)
\* qa_7.py
convert_to_tibetan_number(num) == MapDigits(TIBETAN_DIGITS, num)
\* qa.py: the digits followed by the closing bracket
convert_to_tibetan_number_qa(n) == MapDigits(TIBETAN_DIGITS, n) \o <<CB>>
\* html_parser.py: the digits followed by the closing bracket
get_tibetan_number(index) == MapDigits(TIBETAN_DIGITS, index) \o <<CB>>

\* ------------------------------------------------------------ normalizers
\* duplicate_number_pattern.sub(") ", text) of qa_2.py: every
\* ")" \s* digits+ \s*  becomes  ")" " "
RECURSIVE SubDuplicateNumber(_)
SubDuplicateNumber(s) ==
    IF s = << >> THEN << >>
    ELSE IF Head(s) = CB
    THEN LET r1 == LStrip(Tail(s))
             r2 == DropTibDigits(r1)
         IN IF r2 # r1
            THEN <<CB, SP>> \o SubDuplicateNumber(LStrip(r2))
            ELSE <<CB>> \o SubDuplicateNumber(Tail(s))
    ELSE <<Head(s)>> \o SubDuplicateNumber(Tail(s))

\* qa_2.py clean_question_text
clean_question_text(text) ==
    LET t1 == Strip(DropTibDigits(text))
    IN Strip(SubDuplicateNumber(t1))

\* qa_3.py clean_question_text: question_number_pattern is ^digits+\s*
clean_question_text_qa3(text) ==
    IF text # << >> /\ IsTibDigit(Head(text))
    THEN Strip(LStrip(DropTibDigits(text)))
    ELSE Strip(text)

\* qa_4.py clean_question_text: what follows the first shey
clean_question_text_qa4(text) ==
    IF Contains(text, <<SHEY>>) THEN Strip(AfterFirst(text, SHEY)) ELSE Strip(text)

\* qa_4.py answer_start_pattern.match
answer_start_pattern(line) ==
    StartsWith(line, DEI_LAN_NI) \/ StartsWith(line, DEI_DON_NI)

\* qa_4.py clean_answer_text
clean_answer_text(text) ==
    IF StartsWith(text, DEI_LAN_NI) THEN Strip(From(text, Len(DEI_LAN_NI) + 1))
    ELSE IF StartsWith(text, DEI_DON_NI) THEN Strip(From(text, Len(DEI_DON_NI) + 1))
    ELSE Strip(text)

\* re.sub(r"\s+", " ", s): every run of whitespace becomes one space
RECURSIVE CollapseWhitespace(_)
CollapseWhitespace(s) ==
    IF s = << >> THEN << >>
    ELSE IF Head(s) \in Whitespace
    THEN <<SP>> \o CollapseWhitespace(LStrip(s))
    ELSE <<Head(s)>> \o CollapseWhitespace(Tail(s))

\* qa.py clean_tibetan_text
clean_tibetan_text(text) == CollapseWhitespace(Strip(text))

\* ------------------------------------------------- question-start tests
\* qa_2.py initial_number_pattern.match, qa_3.py question_number_pattern.match
initial_number_pattern(line) == line # << >> /\ IsTibDigit(Head(line))

\* qa_4.py question_start_pattern.match
question_start_pattern(line) == line # << >> /\ Head(line) = YIGMGO

\* qa_5.py alphabet_pattern.match: one letter, then only whitespace
alphabet_pattern(line) ==
    /\ line # << >>
    /\ IsTibLetter(Head(line))
    /\ \A i \in 2..Len(line) : line[i] \in Whitespace

\* length of a match of  "(" \s* digits+ \s* ")"  at the start of s, else 0
BracketMatchLen(s) ==
    IF s # << >> /\ Head(s) = OB
    THEN LET r1 == LStrip(Tail(s))
             r2 == DropTibDigits(r1)
             r3 == LStrip(r2)
         IN IF r2 # r1 /\ r3 # << >> /\ Head(r3) = CB
            THEN Len(s) - Len(r3) + 1
            ELSE 0
    ELSE 0

\* qa_6.py question_pattern.search: start of the leftmost match, else 0
RECURSIVE SearchFrom(_, _)
SearchFrom(line, i) ==
    IF i > Len(line) THEN 0
    ELSE IF BracketMatchLen(From(line, i)) > 0 THEN i
    ELSE SearchFrom(line, i + 1)

question_pattern(line) == SearchFrom(line, 1)

\* match.group(0)
MatchGroup0(line) ==
    LET i == question_pattern(line)
    IN SubSeq(line, i, i + BracketMatchLen(From(line, i)) - 1)

\* a continuation test that looks for a tseg anywhere in the text
tseg_anywhere(text) == Contains(text, <<TSEG>>)

\* qa_6.py tseg_pattern.search: a tseg at the end, or before a final line feed
tseg_pattern(text) ==
    LET n == Len(text)
    IN \/ n >= 1 /\ text[n] = TSEG
       \/ n >= 2 /\ text[n] = NL /\ text[n - 1] = TSEG

\* qa_7.py re.match(r"^\d+\.", text)
dotted_index(text) ==
    /\ text # << >>
    /\ IsDecimalDigit(Head(text))
    /\ LET r == DropDecimalDigits(text) IN r # << >> /\ Head(r) = DOT

\* ------------------------------------------------------------------ state
VARIABLES
    variant,            \* which extractor runs: "A" .. "G"
    doc,                \* document.paragraphs: the stripped, non-empty lines
    pos,                \* how many lines the loop of this run has consumed
    pc,                 \* "parsing", "parsed", "q_written", "saved", "failed",
                        \* "aggregated"
    run,                \* number of the current run on this processor object
    source_readable,    \* whether the source document can be opened and decoded
    outcome,            \* what the caller of the run sees: [kind, value]
    questions,          \* parsed_questions / questions / self.questions
    answers,            \* parsed_answers / answers / self.answers
    current_question,   \* a string (A, B, C, E; None is the empty string) or a list (D, F)
    current_answer,     \* list of lines
    question_counter,   \* question_counter; question_index in html_parser.py
    answer_index,       \* answer_index of html_parser.py
    is_question,        \* qa_7.py
    is_answer,          \* qa_3.py, qa_7.py
    questions_file,     \* <base>_questions.txt: [exists, text]
    answers_file,       \* <base>_answers.txt: [exists, text]
    combined_data,      \* combine_q_n_a.py: the corpus records
    total_records,
    file_statistics,
    other_docs,         \* the other documents whose outputs the directory holds
    listing,            \* os.listdir: the question files in the order they came
    norm_pc,            \* NormSpec: "none", "input", "once", "twice"
    norm_fn,            \* NormSpec: which normalizer
    norm_text,          \* NormSpec: the input text
    norm_once,          \* NormSpec: the normalizer applied once
    norm_twice,         \* NormSpec: and applied to its own result
    enc_pc,             \* EncSpec: "none", "input", "done"
    enc_n,              \* EncSpec: the number to encode
    enc_out,            \* EncSpec: what each copy of the encoder returned
    suspended,          \* DriverSpec: the parse that is not running now
    alone               \* DriverSpec: what the document gave when parsed alone

locals == <<current_question, current_answer, question_counter, answer_index,
            is_question, is_answer>>
lists == <<questions, answers>>
disk == <<questions_file, answers_file>>
corpus == <<combined_data, total_records, file_statistics, other_docs, listing>>
input == <<variant, doc, run, source_readable>>
norm == <<norm_pc, norm_fn, norm_text, norm_once, norm_twice>>
enc == <<enc_pc, enc_n, enc_out>>
driver == <<suspended, alone>>
vars == <<input, pos, pc, outcome, locals, lists, disk, corpus, norm, enc, driver>>

Variants == {"A", "B", "C", "D", "E", "F", "G", "R"}

\* The lines a document of each convention is made of.  Each is stripped and
\* non-empty, as the filter at the top of every loop guarantees.
Pool(v) ==
    CASE v = "A" -> { <<"t7", SP, "a">>,               \* question, numeral 7
                      <<LAN[1], LAN[2], LAN[3], SP, "b">>,  \* answer with the prefix
                      <<"c">>,                         \* plain
                      <<"t7", CB, SP, "t7", SP, "d">> } \* question, duplicated numeral
      [] v = "B" -> { <<"t7", SP, "a">>,               \* question
                      <<"L", "N", SHEY, "b">>,         \* answer keyword
                      <<"c">>,                         \* plain
                      <<"d", SP, "c">> }               \* plain
      [] v = "C" -> { <<YIGMGO, "a", SHEY, "b">>,      \* question
                      <<YIGMGO, "a", SHEY>>,           \* question, nothing after the shey
                      DEI_LAN_NI \o <<"c">>,           \* answer phrase
                      <<"d">> }                        \* plain
      [] v = "D" -> { <<"K">>,                         \* marker
                      <<"a", TSEG, "b">>,              \* body
                      <<"c", SP, "d">> }               \* body
      [] v = "E" -> { <<OB, "t7", CB, "a", TSEG>>,     \* marker first, tseg last
                      <<"a", OB, SP, "t7", CB, "b">>,  \* marker inside the line
                      <<"c", TSEG>>,                   \* plain, tseg last
                      <<"d">> }                        \* plain
      [] v = "F" -> { <<"7", DOT, "a">>,               \* question
                      <<"L", "N", SHEY, SP, "b">>,     \* answer keyword
                      <<"c">>,                         \* plain
                      <<"t7", DOT, SP, "d">> }         \* question, Tibetan numeral
      [] v = "G" -> { <<"t7", SP, "a">>,               \* question unit
                      <<"L", "N", SHEY, SP, "b">>,     \* answer unit
                      <<"c">>,                         \* question unit, no space
                      LAN \o <<"b">> \o LAN }         \* answer unit, keyword twice
      \* qa.py reads the paragraphs as they are, not stripped
      [] v = "R" -> { DRI_BA \o <<SP, "a">>,           \* question keyword
                      LAN \o <<"b", SP>>,              \* answer keyword
                      <<"c", SP, SP, "d">>,            \* neither, two spaces
                      DRI_BA \o <<"a">> \o LAN \o <<"b">> }  \* both keywords

\* every document of at most MaxLines lines
Docs(v) == UNION { [1..n -> Pool(v)] : n \in 0..MaxLines }

NoFile == [exists |-> FALSE, text |-> << >>]

\* what the caller has seen of the run: nothing yet, an exception, or a
\* return (value: the pair count qa.py returns, 0 for a call that returns
\* no number)
Running == [kind |-> "running", value |-> 0]
Raised == [kind |-> "raised", value |-> 0]
Returned(n) == [kind |-> "returned", value |-> n]

\* One parse in the hands of an outer driver: its document, how far it is,
\* the locals of the call and its two lists; target marks the document the
\* driver has parsed alone before.
NoActivation ==
    [present |-> FALSE, target |-> FALSE, doc |-> << >>, pos |-> 0, pc |-> "none",
     current_question |-> << >>, current_answer |-> << >>,
     question_counter |-> 1, answer_index |-> 1,
     is_question |-> FALSE, is_answer |-> FALSE,
     questions |-> << >>, answers |-> << >>]

NotAlone == [done |-> FALSE, questions |-> << >>, answers |-> << >>]

DriverIdle ==
    /\ suspended = NoActivation
    /\ alone = NotAlone

\* the files that hold a copy of the numeral encoder
EncoderCopies == {"qa_2", "qa_3", "qa_6", "qa_7", "qa", "html_parser"}

EncIdle ==
    /\ enc_pc = "none"
    /\ enc_n = 0
    /\ enc_out = [c \in EncoderCopies |-> << >>]

NormIdle ==
    /\ norm_pc = "none"
    /\ norm_fn = "none"
    /\ norm_text = << >>
    /\ norm_once = << >>
    /\ norm_twice = << >>

Init ==
    /\ variant \in Variants
    /\ source_readable \in BOOLEAN
    /\ doc \in (IF source_readable THEN Docs(variant) ELSE {<< >>})
    /\ pos = 0
    /\ pc = "parsing"
    /\ outcome = Running
    /\ run = 1
    /\ questions = << >>
    /\ answers = << >>
    /\ current_question = << >>
    /\ current_answer = << >>
    /\ question_counter = 1
    /\ answer_index = 1
    /\ is_question = FALSE
    /\ is_answer = FALSE
    /\ questions_file = NoFile
    /\ answers_file = NoFile
    /\ combined_data = << >>
    /\ total_records = 0
    /\ file_statistics = << >>
    /\ other_docs = {}
    /\ listing = << >>
    /\ NormIdle
    /\ EncIdle
    /\ DriverIdle

\* the loop has a next paragraph
HasLine(v) == variant = v /\ pc = "parsing" /\ source_readable /\ pos < Len(doc)
\* the loop is over
AtEnd(v) == variant = v /\ pc = "parsing" /\ source_readable /\ pos = Len(doc)
Line == doc[pos + 1]

\* what a loop step leaves alone
StepFrame == UNCHANGED <<input, pc, outcome, disk, corpus, norm, enc, driver>>
\* what the code after the loop leaves alone
EndFrame == UNCHANGED <<input, pos, outcome, locals, disk, corpus, norm, enc, driver>>

\* ---------------------------------------------------------- A: qa_2.py
\* a record maker that takes the first answer line into the question
process_current_qa_greedy_question(question, answer_lines, counter) ==
    LET q == IF answer_lines = << >> THEN question
             ELSE question \o <<SP>> \o Head(answer_lines)
        rest == IF answer_lines = << >> THEN << >> ELSE Tail(answer_lines)
    IN [question |-> int_to_tibetan_numeral(counter) \o <<CB, SP>>
                        \o clean_question_text(q),
        answer |-> int_to_tibetan_numeral(counter) \o <<CB, SP>>
                        \o Join(rest, <<NL>>)]

\* _process_current_qa: the two entries of one record
process_current_qa(question, answer_lines, counter) ==
    LET cleaned_answer ==
            [i \in 1..Len(answer_lines) |->
                IF StartsWith(answer_lines[i], LAN_SP)
                THEN From(answer_lines[i], Len(LAN_SP) + 1)
                ELSE answer_lines[i]]
    IN [question |-> int_to_tibetan_numeral(counter) \o <<CB, SP>>
                        \o clean_question_text(question),
        answer |-> int_to_tibetan_numeral(counter) \o <<CB, SP>>
                        \o Join(cleaned_answer, <<NL>>)]

StepA ==
    /\ HasLine("A")
    /\ pos' = pos + 1
    /\ IF initial_number_pattern(Line)
       THEN /\ IF current_question # << >>
               THEN LET e == process_current_qa(current_question, current_answer,
                                                question_counter)
                    IN /\ questions' = Append(questions, e.question)
                       /\ answers' = Append(answers, e.answer)
                       /\ question_counter' = question_counter + 1
               ELSE UNCHANGED <<questions, answers, question_counter>>
            /\ current_question' = Line
            /\ current_answer' = << >>
       ELSE /\ current_answer' = Append(current_answer, Line)
            /\ UNCHANGED <<questions, answers, question_counter, current_question>>
    /\ UNCHANGED <<answer_index, is_question, is_answer>>
    /\ StepFrame

FinishA ==
    /\ AtEnd("A")
    /\ pc' = "parsed"
    /\ IF current_question # << >>
       THEN LET e == process_current_qa(current_question, current_answer,
                                        question_counter)
            IN /\ questions' = Append(questions, e.question)
               /\ answers' = Append(answers, e.answer)
       ELSE UNCHANGED <<questions, answers>>
    /\ EndFrame

\* ---------------------------------------------------------- B: qa_3.py
\* the two entries appended when a record is saved
numbered_entries_qa3(question, answer_lines, counter) ==
    [question |-> int_to_tibetan_numeral_qa3(counter) \o <<CB, SP>>
                    \o clean_question_text_qa3(question),
     answer |-> int_to_tibetan_numeral_qa3(counter) \o <<CB, SP>>
                    \o Join(answer_lines, <<NL>>)]

\* a continuation resolver that sends every plain line to the answer
plain_line_always_answer(isAnswer, question, answer_lines, line) ==
    [question |-> question, answer |-> Append(answer_lines, line)]

\* a continuation resolver that sends every plain line to the question
plain_line_always_question(isAnswer, question, answer_lines, line) ==
    [question |-> question \o <<SP>> \o line, answer |-> answer_lines]

\* the last two branches of the loop: where a line goes that is neither a
\* question nor an answer-keyword line
plain_line_qa3(isAnswer, question, answer_lines, line) ==
    IF isAnswer
    THEN [question |-> question, answer |-> Append(answer_lines, line)]
    ELSE [question |-> question \o <<SP>> \o line, answer |-> answer_lines]

StepB ==
    /\ HasLine("B")
    /\ pos' = pos + 1
    /\ IF initial_number_pattern(Line)
       THEN /\ IF current_question # << >> /\ current_answer # << >>
               THEN LET e == numbered_entries_qa3(current_question, current_answer,
                                                  question_counter)
                    IN /\ questions' = Append(questions, e.question)
                       /\ answers' = Append(answers, e.answer)
                       /\ current_answer' = << >>
                       /\ question_counter' = question_counter + 1
               ELSE UNCHANGED <<questions, answers, current_answer, question_counter>>
            /\ current_question' = Line
            /\ is_answer' = FALSE
       ELSE IF StartsWith(Line, LAN)
       THEN /\ is_answer' = TRUE
            /\ current_answer' = Append(current_answer, Strip(From(Line, Len(LAN) + 1)))
            /\ UNCHANGED <<questions, answers, question_counter, current_question>>
       ELSE LET r == plain_line_qa3(is_answer, current_question, current_answer, Line)
            IN /\ current_question' = r.question
               /\ current_answer' = r.answer
               /\ UNCHANGED <<questions, answers, question_counter, is_answer>>
    /\ UNCHANGED <<answer_index, is_question>>
    /\ StepFrame

FinishB ==
    /\ AtEnd("B")
    /\ pc' = "parsed"
    /\ IF current_question # << >> /\ current_answer # << >>
       THEN LET e == numbered_entries_qa3(current_question, current_answer,
                                          question_counter)
            IN /\ questions' = Append(questions, e.question)
               /\ answers' = Append(answers, e.answer)
       ELSE UNCHANGED <<questions, answers>>
    /\ EndFrame

\* ---------------------------------------------------------- C: qa_4.py
\* _process_current_qa: the index is written with f"{counter}"
process_current_qa_qa4(question, answer_lines, counter) ==
    [question |-> PyStr(counter) \o <<CB, SP>> \o question,
     answer |-> PyStr(counter) \o <<CB, SP>> \o Join(answer_lines, <<NL>>)]

StepC ==
    /\ HasLine("C")
    /\ pos' = pos + 1
    /\ IF question_start_pattern(Line)
       THEN /\ IF current_question # << >>
               THEN LET e == process_current_qa_qa4(current_question, current_answer,
                                                    question_counter)
                    IN /\ questions' = Append(questions, e.question)
                       /\ answers' = Append(answers, e.answer)
                       /\ question_counter' = question_counter + 1
               ELSE UNCHANGED <<questions, answers, question_counter>>
            /\ current_question' = clean_question_text_qa4(Line)
            /\ current_answer' = << >>
       ELSE /\ current_answer' =
                   Append(current_answer,
                          IF answer_start_pattern(Line) THEN clean_answer_text(Line)
                          ELSE Line)
            /\ UNCHANGED <<questions, answers, question_counter, current_question>>
    /\ UNCHANGED <<answer_index, is_question, is_answer>>
    /\ StepFrame

FinishC ==
    /\ AtEnd("C")
    /\ pc' = "parsed"
    /\ IF current_question # << >>
       THEN LET e == process_current_qa_qa4(current_question, current_answer,
                                            question_counter)
            IN /\ questions' = Append(questions, e.question)
               /\ answers' = Append(answers, e.answer)
       ELSE UNCHANGED <<questions, answers>>
    /\ EndFrame

\* ---------------------------------------------------------- D: qa_5.py
\* re.sub(r"^[letter]\s*", "", text)
SubAlphabetMarker(text) ==
    IF text # << >> /\ IsTibLetter(Head(text)) THEN LStrip(Tail(text)) ELSE text

\* _process_current_qa: question and answer are lists of lines
process_current_qa_qa5(question, answer, counter) ==
    LET cleaned_question == Strip(SubAlphabetMarker(Strip(Join(question, <<SP>>))))
    IN [question |-> PyStr(counter) \o <<CB, SP>> \o cleaned_question,
        answer |-> PyStr(counter) \o <<CB, SP>> \o Strip(Join(answer, <<SP>>))]

\* a position test that still sends the second body line to the question
body_line_up_to_two(question) == Len(question) <= 2

\* len(current_question) == 1: only the marker line is in the buffer
body_line_is_first(question) == Len(question) = 1

StepD ==
    /\ HasLine("D")
    /\ pos' = pos + 1
    /\ IF alphabet_pattern(Line)
       THEN IF current_question # << >> \/ current_answer # << >>
            THEN LET e == process_current_qa_qa5(current_question, current_answer,
                                                 question_counter)
                 IN /\ questions' = Append(questions, e.question)
                    /\ answers' = Append(answers, e.answer)
                    /\ question_counter' = question_counter + 1
                    /\ current_question' = <<Line>>
                    /\ current_answer' = << >>
            ELSE /\ current_question' = Append(current_question, Line)
                 /\ UNCHANGED <<questions, answers, question_counter, current_answer>>
       ELSE IF current_question # << >>
       THEN /\ IF body_line_is_first(current_question)
               THEN /\ current_question' = Append(current_question, Line)
                    /\ UNCHANGED current_answer
               ELSE /\ current_answer' = Append(current_answer, Line)
                    /\ UNCHANGED current_question
            /\ UNCHANGED <<questions, answers, question_counter>>
       ELSE UNCHANGED <<questions, answers, question_counter, current_question,
                        current_answer>>
    /\ UNCHANGED <<answer_index, is_question, is_answer>>
    /\ StepFrame

FinishD ==
    /\ AtEnd("D")
    /\ pc' = "parsed"
    /\ IF current_question # << >> \/ current_answer # << >>
       THEN LET e == process_current_qa_qa5(current_question, current_answer,
                                            question_counter)
            IN /\ questions' = Append(questions, e.question)
               /\ answers' = Append(answers, e.answer)
       ELSE UNCHANGED <<questions, answers>>
    /\ EndFrame

\* ---------------------------------------------------------- E: qa_6.py
\* the answer entry appended when a record is saved
answer_entry_qa6(answer_lines, counter) ==
    int_to_tibetan(counter) \o <<CB, SP>> \o Strip(Join(answer_lines, <<NL>>))

\* the head of a new question: the line without every copy of the matched
\* marker, behind the index of the record
question_head_qa6(line, counter) ==
    int_to_tibetan(counter) \o <<CB, SP>> \o Strip(RemoveAll(line, MatchGroup0(line)))

StepE ==
    /\ HasLine("E")
    /\ pos' = pos + 1
    /\ IF question_pattern(Line) # 0
       THEN /\ IF current_question # << >>
               THEN /\ questions' = Append(questions, Strip(current_question))
                    /\ answers' = Append(answers,
                                         answer_entry_qa6(current_answer, question_counter))
                    /\ current_answer' = << >>
                    /\ question_counter' = question_counter + 1
               ELSE UNCHANGED <<questions, answers, current_answer, question_counter>>
            /\ current_question' = question_head_qa6(Line, question_counter')
       ELSE IF current_question # << >> /\ tseg_pattern(current_question)
       THEN /\ current_question' = current_question \o <<SP>> \o Line
            /\ UNCHANGED <<questions, answers, current_answer, question_counter>>
       ELSE /\ current_answer' = Append(current_answer, Line)
            /\ UNCHANGED <<questions, answers, current_question, question_counter>>
    /\ UNCHANGED <<answer_index, is_question, is_answer>>
    /\ StepFrame

FinishE ==
    /\ AtEnd("E")
    /\ pc' = "parsed"
    /\ IF current_question # << >>
       THEN /\ questions' = Append(questions, Strip(current_question))
            /\ answers' = Append(answers,
                                 answer_entry_qa6(current_answer, question_counter))
       ELSE UNCHANGED <<questions, answers>>
    /\ EndFrame

\* ---------------------------------------------------------- F: qa_7.py
\* " ".join(lines).strip()
joined_qa7(lines) == Strip(Join(lines, <<SP>>))

StepF ==
    /\ HasLine("F")
    /\ pos' = pos + 1
    /\ IF dotted_index(Line)
       THEN /\ questions' = IF current_question # << >>
                            THEN Append(questions, joined_qa7(current_question))
                            ELSE questions
            /\ current_question' = <<Strip(AfterFirst(Line, DOT))>>
            /\ is_question' = TRUE
            /\ is_answer' = FALSE
            /\ UNCHANGED <<answers, current_answer>>
       ELSE IF StartsWith(Line, LAN)
       THEN /\ answers' = IF current_answer # << >>
                          THEN Append(answers, joined_qa7(current_answer))
                          ELSE answers
            /\ is_question' = FALSE
            /\ is_answer' = TRUE
            /\ current_answer' = <<Strip(RemoveAll(Line, LAN))>>
            /\ UNCHANGED <<questions, current_question>>
       ELSE IF is_question
       THEN /\ current_question' = Append(current_question, Line)
            /\ UNCHANGED <<questions, answers, current_answer, is_question, is_answer>>
       ELSE IF is_answer
       THEN /\ current_answer' = Append(current_answer, Line)
            /\ UNCHANGED <<questions, answers, current_question, is_question, is_answer>>
       ELSE UNCHANGED <<questions, answers, current_question, current_answer,
                        is_question, is_answer>>
    /\ UNCHANGED <<question_counter, answer_index>>
    /\ StepFrame

FinishF ==
    /\ AtEnd("F")
    /\ pc' = "parsed"
    /\ questions' = IF current_question # << >>
                    THEN Append(questions, joined_qa7(current_question))
                    ELSE questions
    /\ answers' = IF current_answer # << >>
                  THEN Append(answers, joined_qa7(current_answer))
                  ELSE answers
    /\ EndFrame

\* --------------------------------------------------- G: html_parser.py
StepG ==
    /\ HasLine("G")
    /\ pos' = pos + 1
    /\ IF Contains(Line, LAN)
       THEN /\ answers' = Append(answers,
                                 get_tibetan_number(answer_index) \o <<SP>>
                                     \o Strip(RemoveAll(Line, LAN)))
            /\ answer_index' = answer_index + 1
            /\ UNCHANGED <<questions, question_counter>>
       ELSE /\ questions' = Append(questions,
                                   get_tibetan_number(question_counter) \o <<SP>>
                                       \o SplitLast(Line))
            /\ question_counter' = question_counter + 1
            /\ UNCHANGED <<answers, answer_index>>
    /\ UNCHANGED <<current_question, current_answer, is_question, is_answer>>
    /\ StepFrame

\* return questions, answers
FinishG ==
    /\ AtEnd("G")
    /\ pc' = "parsed"
    /\ UNCHANGED lists
    /\ EndFrame

\* ------------------------------------------------------------ R: qa.py
\* where "$" matches at the end of the text: a final line feed is left out
DropFinalNewline(s) ==
    IF s # << >> /\ s[Len(s)] = NL THEN SubSeq(s, 1, Len(s) - 1) ELSE s

\* re.findall(qa_pattern, full_text, re.DOTALL): the two groups of every
\* match of  DRI_BA \s* (.*?) \s* LAN \s* (.*?) (?=DRI_BA|$)
RECURSIVE qa_pattern_findall(_)
qa_pattern_findall(text) ==
    LET i == Find(text, DRI_BA)
        after_q == LStrip(From(text, i + Len(DRI_BA)))
        j == Find(after_q, LAN)
        after_a == LStrip(From(after_q, j + Len(LAN)))
        k == Find(after_a, DRI_BA)
    IN IF i = 0 \/ j = 0 THEN << >>
       ELSE <<[question |-> RStrip(SubSeq(after_q, 1, j - 1)),
               answer |-> IF k = 0 THEN DropFinalNewline(after_a)
                          ELSE SubSeq(after_a, 1, k - 1)]>>
            \o (IF k = 0 THEN << >> ELSE qa_pattern_findall(From(after_a, k)))

\* extract_qa_from_docx up to the two writes.  The entries are kept without
\* the blank line that ends each of them; FileText puts it back.
ExtractR ==
    /\ variant = "R"
    /\ pc = "parsing"
    /\ source_readable
    /\ pc' = "parsed"
    /\ pos' = Len(doc)
    /\ LET qa_pairs == qa_pattern_findall(Join(doc, <<NL>>))
       IN /\ questions' = [i \in 1..Len(qa_pairs) |->
                              convert_to_tibetan_number_qa(i) \o <<SP>>
                                  \o clean_tibetan_text(qa_pairs[i].question)]
          /\ answers' = [i \in 1..Len(qa_pairs) |->
                            convert_to_tibetan_number_qa(i) \o <<SP>>
                                \o clean_tibetan_text(qa_pairs[i].answer)]
    /\ UNCHANGED <<input, outcome, locals, disk, corpus, norm, enc, driver>>

\* ------------------------------------------------------------ the emitter
\* qa_7.py save_to_files: the entries get their index when they are written
numbered_qa7(list) ==
    [i \in 1..Len(list) |-> convert_to_tibetan_number(i) \o <<CB, SP>> \o list[i]]

\* "".join(item + end for item in list)
RECURSIVE ConcatWithEnd(_, _)
ConcatWithEnd(list, end) ==
    IF list = << >> THEN << >>
    ELSE Head(list) \o end \o ConcatWithEnd(Tail(list), end)

\* the entries a save writes, in order
WrittenEntries(v, list) == IF v = "F" THEN numbered_qa7(list) ELSE list

\* the text a save writes to one file
FileText(v, list) ==
    CASE v \in {"A", "B", "C", "D", "E"} -> Join(list, <<NL, NL>>)
      [] v = "F" -> ConcatWithEnd(numbered_qa7(list), <<NL, NL>>)
      [] v = "G" -> ConcatWithEnd(list, <<NL>>)
      [] v = "R" -> ConcatWithEnd(list, <<NL, NL>>)

\* open(questions_path, "w") ... write
SaveQuestions ==
    /\ pc = "parsed"
    /\ pc' = "q_written"
    /\ questions_file' = [exists |-> TRUE, text |-> FileText(variant, questions)]
    /\ UNCHANGED <<input, pos, outcome, locals, lists, answers_file, corpus, norm, enc, driver>>

\* open(answers_path, "w") ... write
SaveAnswers ==
    /\ pc = "q_written"
    /\ pc' = "saved"
    /\ answers_file' = [exists |-> TRUE, text |-> FileText(variant, answers)]
    /\ outcome' = Returned(IF variant = "R" THEN Len(questions) ELSE 0)
    /\ UNCHANGED <<input, pos, locals, lists, questions_file, corpus, norm, enc, driver>>

\* -------------------------------------------------------------- failures
\* What the caller sees when an exception leaves the extraction: qa_2.py ..
\* qa_5.py log it and raise it again, qa_6.py, qa_7.py and html_parser.py do
\* not catch it, qa.py catches it, prints it and returns 0.
FailureOutcome(v) == IF v = "R" THEN Returned(0) ELSE Raised

\* Document(file_path) / open(file_path) raises
OpenFails ==
    /\ pc = "parsing"
    /\ ~source_readable
    /\ pc' = "failed"
    /\ outcome' = FailureOutcome(variant)
    /\ UNCHANGED <<input, pos, locals, lists, disk, corpus, norm, enc, driver>>

\* what a failed open(path, "w") ... write leaves of a file: the open itself
\* failed and the file is as it was, or the file was opened (and emptied) and
\* the write failed
AfterFailedWrite(file) == {file, [exists |-> TRUE, text |-> << >>]}

\* the write of the questions file raises
SaveQuestionsFails ==
    /\ pc = "parsed"
    /\ pc' = "failed"
    /\ questions_file' \in AfterFailedWrite(questions_file)
    /\ outcome' = FailureOutcome(variant)
    /\ UNCHANGED <<input, pos, locals, lists, answers_file, corpus, norm, enc, driver>>

\* the questions file is written, the write of the answers file raises
SaveAnswersFails ==
    /\ pc = "q_written"
    /\ pc' = "failed"
    /\ answers_file' \in AfterFailedWrite(answers_file)
    /\ outcome' = FailureOutcome(variant)
    /\ UNCHANGED <<input, pos, locals, lists, questions_file, corpus, norm, enc, driver>>

\* The same processor object parses the same document once more.  The lists
\* of A..E and G are locals of the call; qa_7.py keeps them on the object.
Rerun ==
    /\ pc = "saved"
    /\ run < MaxRuns
    /\ run' = run + 1
    /\ pc' = "parsing"
    /\ outcome' = Running
    /\ pos' = 0
    /\ questions' = IF variant = "F" THEN questions ELSE << >>
    /\ answers' = IF variant = "F" THEN answers ELSE << >>
    /\ current_question' = << >>
    /\ current_answer' = << >>
    /\ question_counter' = 1
    /\ answer_index' = 1
    /\ is_question' = FALSE
    /\ is_answer' = FALSE
    /\ UNCHANGED <<variant, doc, source_readable, disk, corpus, norm, enc, driver>>

\* --------------------------------------------------------- the aggregator
\* the pieces of s between the occurrences of c
RECURSIVE SplitOn(_, _)
SplitOn(s, c) ==
    IF ~Contains(s, <<c>>) THEN <<s>>
    ELSE <<SubSeq(s, 1, Find(s, <<c>>) - 1)>> \o SplitOn(AfterFirst(s, c), c)

NonEmpty(s) == s # << >>

\* parse_text_file: the stripped non-empty lines of the file
parse_text_file(text) ==
    LET raw == SplitOn(text, NL)
    IN SelectSeq([i \in 1..Len(raw) |-> Strip(raw[i])], NonEmpty)

Min(a, b) == IF a <= b THEN a ELSE b

\* File names are sequences of pieces; the two suffixes the code looks for
\* are one piece each.
Q_SUFFIX == "_questions.txt"
A_SUFFIX == "_answers.txt"

\* f"{base_name}_questions.txt", f"{base_name}_answers.txt"
QuestionsName(base) == base \o <<Q_SUFFIX>>
AnswersName(base) == base \o <<A_SUFFIX>>

\* input_file.stem of the document the extractor runs on
BaseName == <<"doc">>

\* The outputs other documents can have left in the directory: a document is
\* its stem, its question entries and its answer entries; has_answers tells
\* whether its answers file was written.
Entry(i, text) == int_to_tibetan_numeral(i) \o <<CB, SP>> \o text

OtherDirectories ==
    { {},
      \* two questions, one answer
      { [base |-> <<"old">>, has_answers |-> TRUE,
         questions |-> <<Entry(1, <<"a">>), Entry(2, <<"b">>)>>,
         answers |-> <<Entry(1, <<"c">>)>>] },
      \* the questions file alone
      { [base |-> <<"old">>, has_answers |-> FALSE,
         questions |-> <<Entry(1, <<"a">>)>>,
         answers |-> << >>] },
      \* a document whose stem ends with the suffix of a questions file
      { [base |-> <<"doc", Q_SUFFIX>>, has_answers |-> TRUE,
         questions |-> <<Entry(1, <<"a">>)>>,
         answers |-> <<Entry(1, <<"c">>)>>] },
      \* the questions file of such a document alone
      { [base |-> <<"doc", Q_SUFFIX>>, has_answers |-> FALSE,
         questions |-> <<Entry(1, <<"a">>)>>,
         answers |-> << >>] } }

\* the files of one document, by name
FilesOf(d) ==
    IF d.has_answers
    THEN (QuestionsName(d.base) :> FileText("A", d.questions))
             @@ (AnswersName(d.base) :> FileText("A", d.answers))
    ELSE (QuestionsName(d.base) :> FileText("A", d.questions))

RECURSIVE FilesOfAll(_)
FilesOfAll(docs) ==
    IF docs = {} THEN << >>
    ELSE LET d == CHOOSE x \in docs : TRUE
         IN FilesOf(d) @@ FilesOfAll(docs \ {d})

\* the files of the extractor's own document
OwnFiles ==
    (IF questions_file.exists
     THEN (QuestionsName(BaseName) :> questions_file.text) ELSE << >>)
    @@ (IF answers_file.exists
        THEN (AnswersName(BaseName) :> answers_file.text) ELSE << >>)

\* the files each of the other directories holds
OtherFiles == [others \in OtherDirectories |-> FilesOfAll(others)]

\* the directory: file name -> text
Directory(others) == OwnFiles @@ OtherFiles[others]

\* filename.endswith("_questions.txt")
IsQuestionsFile(filename) == filename # << >> /\ filename[Len(filename)] = Q_SUFFIX

\* the orders os.listdir can give the question files in
Listings(dir) ==
    LET names == {n \in DOMAIN dir : IsQuestionsFile(n)}
    IN {l \in [1..Cardinality(names) -> names] :
           \A i, j \in 1..Cardinality(names) : i # j => l[i] # l[j]}

\* one pass of the loop body: what the file called filename adds
combine_file(dir, filename) ==
    LET base_filename == RemoveAll(filename, <<Q_SUFFIX>>)
        answer_file == base_filename \o <<A_SUFFIX>>
    IN IF answer_file \in DOMAIN dir
       THEN LET qs == parse_text_file(dir[filename])
                as == parse_text_file(dir[answer_file])
                record_count == Min(Len(qs), Len(as))
            IN [paired |-> TRUE,
                base_filename |-> base_filename,
                record_count |-> record_count,
                qa_pairs |-> [n \in 1..record_count |->
                                 [question |-> SplitLast(qs[n]),
                                  answer |-> SplitLast(as[n]),
                                  filename |-> base_filename]]]
       ELSE [paired |-> FALSE, base_filename |-> base_filename,
             record_count |-> 0, qa_pairs |-> << >>]

\* combined_data.append over the passes
RECURSIVE AllPairs(_)
AllPairs(passes) ==
    IF passes = << >> THEN << >> ELSE Head(passes).qa_pairs \o AllPairs(Tail(passes))

\* total_records += record_count over the passes
RECURSIVE SumCounts(_)
SumCounts(passes) ==
    IF passes = << >> THEN 0 ELSE Head(passes).record_count + SumCounts(Tail(passes))

\* file_statistics[base_filename] = record_count over the passes: a later
\* pass overwrites an earlier one with the same base name
RECURSIVE Statistics(_)
Statistics(passes) ==
    IF passes = << >> THEN << >>
    ELSE LET last == passes[Len(passes)]
             before == Statistics(SubSeq(passes, 1, Len(passes) - 1))
         IN IF last.paired
            THEN (last.base_filename :> last.record_count) @@ before
            ELSE before

\* combine_question_answer_files on the output directory, which holds the
\* files of this document and those of other_docs
Aggregate ==
    /\ pc = "saved"
    /\ pc' = "aggregated"
    /\ \E others \in OtherDirectories :
         \E dir \in {Directory(others)} :
           \E order \in Listings(dir) :
             \E passes \in {[i \in 1..Len(order) |-> combine_file(dir, order[i])]} :
                /\ other_docs' = others
                /\ listing' = order
                /\ combined_data' = AllPairs(passes)
                /\ total_records' = SumCounts(passes)
                /\ file_statistics' = Statistics(passes)
    /\ UNCHANGED <<input, pos, outcome, locals, lists, disk, norm, enc, driver>>

\* --------------------------------------------------------- specification
Next ==
    \/ StepA \/ FinishA
    \/ StepB \/ FinishB
    \/ StepC \/ FinishC
    \/ StepD \/ FinishD
    \/ StepE \/ FinishE
    \/ StepF \/ FinishF
    \/ StepG \/ FinishG
    \/ ExtractR
    \/ OpenFails
    \/ SaveQuestions
    \/ SaveQuestionsFails
    \/ SaveAnswersFails
    \/ SaveAnswers
    \/ Rerun
    \/ Aggregate

Spec == Init /\ [][Next]_vars

\* ------------------------------------------- the normalizers on their own
\* The question normalizers of qa_2.py, qa_3.py and qa_4.py applied to a text
\* and then to their own result.
NormFns == {"qa_2", "qa_3", "qa_4"}

\* the characters the three normalizers tell apart: a digit, whitespace, the
\* closing bracket, the shey, a letter
NormAlphabet == {"t1", SP, CB, SHEY, "a"}

\* the texts of at most MaxTextLen characters that are stripped, as every line
\* is that the parse loops hand on
NormTexts ==
    { t \in UNION { [1..n -> NormAlphabet] : n \in 0..MaxTextLen } : Strip(t) = t }

Normalize(fn, text) ==
    CASE fn = "qa_2" -> clean_question_text(text)
      [] fn = "qa_3" -> clean_question_text_qa3(text)
      [] fn = "qa_4" -> clean_question_text_qa4(text)

NormInit ==
    /\ variant = "none"
    /\ source_readable = TRUE
    /\ doc = << >>
    /\ pos = 0
    /\ pc = "idle"
    /\ outcome = Running
    /\ run = 1
    /\ questions = << >>
    /\ answers = << >>
    /\ current_question = << >>
    /\ current_answer = << >>
    /\ question_counter = 1
    /\ answer_index = 1
    /\ is_question = FALSE
    /\ is_answer = FALSE
    /\ questions_file = NoFile
    /\ answers_file = NoFile
    /\ combined_data = << >>
    /\ total_records = 0
    /\ file_statistics = << >>
    /\ other_docs = {}
    /\ listing = << >>
    /\ norm_pc = "input"
    /\ norm_fn \in NormFns
    /\ norm_text \in NormTexts
    /\ norm_once = << >>
    /\ norm_twice = << >>
    /\ EncIdle
    /\ DriverIdle

NormalizeOnce ==
    /\ norm_pc = "input"
    /\ norm_pc' = "once"
    /\ norm_once' = Normalize(norm_fn, norm_text)
    /\ UNCHANGED <<input, pos, pc, outcome, locals, lists, disk, corpus, enc, driver, norm_fn, norm_text,
                   norm_twice>>

NormalizeTwice ==
    /\ norm_pc = "once"
    /\ norm_pc' = "twice"
    /\ norm_twice' = Normalize(norm_fn, norm_once)
    /\ UNCHANGED <<input, pos, pc, outcome, locals, lists, disk, corpus, enc, driver, norm_fn, norm_text,
                   norm_once>>

NormNext == NormalizeOnce \/ NormalizeTwice

NormSpec == NormInit /\ [][NormNext]_vars

\* ---------------------------------------- the numeral encoders on their own
\* Every copy of the encoder applied to the same number.
EncInit ==
    /\ variant = "none"
    /\ source_readable = TRUE
    /\ doc = << >>
    /\ pos = 0
    /\ pc = "idle"
    /\ outcome = Running
    /\ run = 1
    /\ questions = << >>
    /\ answers = << >>
    /\ current_question = << >>
    /\ current_answer = << >>
    /\ question_counter = 1
    /\ answer_index = 1
    /\ is_question = FALSE
    /\ is_answer = FALSE
    /\ questions_file = NoFile
    /\ answers_file = NoFile
    /\ combined_data = << >>
    /\ total_records = 0
    /\ file_statistics = << >>
    /\ other_docs = {}
    /\ listing = << >>
    /\ NormIdle
    /\ enc_pc = "input"
    /\ enc_n \in 1..MaxNumber
    /\ enc_out = [c \in EncoderCopies |-> << >>]
    /\ DriverIdle

Encode ==
    /\ enc_pc = "input"
    /\ enc_pc' = "done"
    /\ enc_out' = [c \in EncoderCopies |->
                     CASE c = "qa_2" -> int_to_tibetan_numeral(enc_n)
                       [] c = "qa_3" -> int_to_tibetan_numeral_qa3(enc_n)
                       [] c = "qa_6" -> int_to_tibetan(enc_n)
                       [] c = "qa_7" -> convert_to_tibetan_number(enc_n)
                       [] c = "qa" -> convert_to_tibetan_number_qa(enc_n)
                       [] c = "html_parser" -> get_tibetan_number(enc_n)]
    /\ UNCHANGED <<input, pos, pc, outcome, locals, lists, disk, corpus, norm, driver, enc_n>>

EncNext == Encode

EncSpec == EncInit /\ [][EncNext]_vars

\* ---------------------------------------------- two documents, one driver
\* An outer driver parses a document alone, then parses it again beside
\* another document, handing control from one parse to the other between
\* any two lines.  Each parse has the locals of its own call; the two lists
\* are locals too (qa_2.py .. qa_6.py, qa.py, html_parser.py) or fields of
\* the object that qa_7.py makes for the document.
DocsUpTo(v, n) == UNION { [1..k -> Pool(v)] : k \in 0..n }

\* lists that a new parse takes over from the parse before it
kept_lists(kept) == kept

\* parsed_questions = [] at the top of the call; self.questions = [] in
\* __init__ of qa_7.py
init_lists(kept) == << >>

\* a parse of document d before its first line
StartOf(d, isTarget, kept_questions, kept_answers) ==
    [present |-> TRUE, target |-> isTarget, doc |-> d, pos |-> 0, pc |-> "parsing",
     current_question |-> << >>, current_answer |-> << >>,
     question_counter |-> 1, answer_index |-> 1,
     is_question |-> FALSE, is_answer |-> FALSE,
     questions |-> init_lists(kept_questions), answers |-> init_lists(kept_answers)]

\* the parse that is running now
Current ==
    [present |-> TRUE, target |-> ~suspended.target, doc |-> doc, pos |-> pos, pc |-> pc,
     current_question |-> current_question, current_answer |-> current_answer,
     question_counter |-> question_counter, answer_index |-> answer_index,
     is_question |-> is_question, is_answer |-> is_answer,
     questions |-> questions, answers |-> answers]

\* parse a runs next
Activate(a) ==
    /\ doc' = a.doc
    /\ pos' = a.pos
    /\ pc' = a.pc
    /\ current_question' = a.current_question
    /\ current_answer' = a.current_answer
    /\ question_counter' = a.question_counter
    /\ answer_index' = a.answer_index
    /\ is_question' = a.is_question
    /\ is_answer' = a.is_answer
    /\ questions' = a.questions
    /\ answers' = a.answers

DriverInit ==
    /\ variant \in Variants
    /\ source_readable = TRUE
    /\ doc \in DocsUpTo(variant, MaxDriverLines)
    /\ pos = 0
    /\ pc = "parsing"
    /\ outcome = Running
    /\ run = 1
    /\ questions = << >>
    /\ answers = << >>
    /\ current_question = << >>
    /\ current_answer = << >>
    /\ question_counter = 1
    /\ answer_index = 1
    /\ is_question = FALSE
    /\ is_answer = FALSE
    /\ questions_file = NoFile
    /\ answers_file = NoFile
    /\ combined_data = << >>
    /\ total_records = 0
    /\ file_statistics = << >>
    /\ other_docs = {}
    /\ listing = << >>
    /\ NormIdle
    /\ EncIdle
    /\ DriverIdle

\* the document has been parsed alone: the driver starts a parse of another
\* document and a second parse of this one
StartInterleaved ==
    /\ ~alone.done
    /\ pc = "parsed"
    /\ alone' = [done |-> TRUE, questions |-> questions, answers |-> answers]
    /\ \E other \in DocsUpTo(variant, MaxOtherLines) :
          suspended' = StartOf(other, FALSE, questions, answers)
    /\ Activate(StartOf(doc, TRUE, questions, answers))
    /\ UNCHANGED <<variant, run, source_readable, outcome, disk, corpus, norm, enc>>

\* the driver hands control to the other parse
Switch ==
    /\ alone.done
    /\ suspended.present
    /\ suspended' = Current
    /\ Activate(suspended)
    /\ UNCHANGED <<variant, run, source_readable, outcome, disk, corpus, norm, enc, alone>>

DriverNext ==
    \/ StepA \/ FinishA
    \/ StepB \/ FinishB
    \/ StepC \/ FinishC
    \/ StepD \/ FinishD
    \/ StepE \/ FinishE
    \/ StepF \/ FinishF
    \/ StepG \/ FinishG
    \/ ExtractR
    \/ StartInterleaved
    \/ Switch

DriverSpec == DriverInit /\ [][DriverNext]_vars

\* ----------------------------------------------- vocabulary of the claims
\* the value of a digit glyph of either script
DigitValue(c) ==
    CHOOSE d \in 0..9 : TIBETAN_DIGITS[d + 1] = c \/ ASCII_DIGITS[d + 1] = c

RECURSIVE NumeralValue(_)
NumeralValue(ds) ==
    IF ds = << >> THEN 0
    ELSE 10 * NumeralValue(SubSeq(ds, 1, Len(ds) - 1)) + DigitValue(ds[Len(ds)])

\* the index an entry carries: the numeral in front of its closing bracket;
\* 0 when the entry does not start with a numeral and a closing bracket
IndexOf(entry) ==
    LET i == Find(entry, <<CB>>)
    IN IF i <= 1 \/ \E j \in 1..(i - 1) : ~IsDecimalDigit(entry[j])
       THEN 0
       ELSE NumeralValue(SubSeq(entry, 1, i - 1))

\* the text of an entry: what follows the closing bracket and its space
TextOf(entry) == From(entry, Find(entry, <<CB>>) + 2)

WrittenQuestions == WrittenEntries(variant, questions)
WrittenAnswers == WrittenEntries(variant, answers)

\* a pair is a question entry with the answer entry beside it
PairsEmitted == Min(Len(WrittenQuestions), Len(WrittenAnswers))

\* the role the classifier of variant v gives a line
IsQuestionStart(v, line) ==
    CASE v = "R" -> Contains(line, DRI_BA)
      [] v \in {"A", "B"} -> initial_number_pattern(line)
      [] v = "C" -> question_start_pattern(line)
      [] v = "D" -> alphabet_pattern(line)
      [] v = "E" -> question_pattern(line) # 0
      [] v = "F" -> dotted_index(line)
      [] v = "G" -> ~Contains(line, LAN)

IsAnswerStart(v, line) ==
    /\ ~IsQuestionStart(v, line)
    /\ CASE v \in {"B", "F"} -> StartsWith(line, LAN)
         [] v = "C" -> answer_start_pattern(line)
         [] OTHER -> FALSE

IsPlain(v, line) == ~IsQuestionStart(v, line) /\ ~IsAnswerStart(v, line)

\* the number of QuestionStart lines of the document
NumQuestionStarts ==
    Cardinality({i \in 1..Len(doc) : IsQuestionStart(variant, doc[i])})

\* the variants that keep a trailing record with an empty answer, by the spec
KeepEmptyAnswerVariants == {"A", "B", "C", "E", "F"}

\* ----------------------------------------------------------------- claims

\* C1: in every variant, once both files are written, the questions output
\* and the answers output hold the same number of entries and the i-th entry
\* of each carries the index i.
C1_SameCountSameIndex ==
    pc = "saved" =>
        /\ Len(WrittenQuestions) = Len(WrittenAnswers)
        /\ \A i \in 1..Len(WrittenQuestions) :
              /\ IndexOf(WrittenQuestions[i]) = i
              /\ IndexOf(WrittenAnswers[i]) = i

\* C2: in variants A, B, C, E and F a document with k QuestionStart lines
\* yields exactly k pairs, or k-1 when the last record's answer buffer is
\* empty at end-of-stream.
C2_OnePairPerQuestionStart ==
    (pc = "parsed" /\ variant \in KeepEmptyAnswerVariants) =>
        LET k == NumQuestionStarts
        IN \/ PairsEmitted = k
           \/ PairsEmitted = k - 1 /\ current_answer = << >>

C4_RoundTrip ==
    ( /\ pc = "aggregated"
      /\ other_docs = {}
      /\ Len(WrittenQuestions) = Len(WrittenAnswers)
      /\ \A i \in 1..Len(WrittenQuestions) :
            TextOf(WrittenQuestions[i]) # << >> /\ TextOf(WrittenAnswers[i]) # << >> ) =>
        /\ Len(combined_data) = Len(WrittenQuestions)
        /\ \A i \in 1..Len(combined_data) :
              /\ combined_data[i].question = TextOf(WrittenQuestions[i])
              /\ combined_data[i].answer = TextOf(WrittenAnswers[i])

\* C5: in variants A, B, C, E and F a record that is open at end-of-stream
\* with nothing after its QuestionStart line is emitted as a pair whose
\* answer text is empty.
C5_TrailingEmptyAnswerEmitted ==
    ( /\ pc = "parsed"
      /\ variant \in KeepEmptyAnswerVariants
      /\ doc # << >>
      /\ IsQuestionStart(variant, doc[Len(doc)]) ) =>
        /\ Len(WrittenAnswers) >= 1
        /\ Len(WrittenAnswers) = Len(WrittenQuestions)
        /\ TextOf(WrittenAnswers[Len(WrittenAnswers)]) = << >>

\* C6: in variant D every emitted pair has a non-empty question text and a
\* non-empty answer text.
C6_BothBuffersNonEmpty ==
    variant = "D" =>
        \A i \in 1..Len(questions) :
            /\ TextOf(questions[i]) # << >>
            /\ i <= Len(answers)
            /\ TextOf(answers[i]) # << >>

\* C7: in every variant a document without a QuestionStart line leaves both
\* outputs empty.
C7_NoQuestionNoPairs ==
    (pc = "saved" /\ NumQuestionStarts = 0) =>
        /\ WrittenQuestions = << >>
        /\ WrittenAnswers = << >>
        /\ questions_file.text = << >>
        /\ answers_file.text = << >>

\* the stream of C8: QuestionStart, answer keyword, QuestionStart, Plain
C8_Stream ==
    /\ variant = "B"
    /\ Len(doc) = 4
    /\ IsQuestionStart("B", doc[1])
    /\ IsAnswerStart("B", doc[2])
    /\ IsQuestionStart("B", doc[3])
    /\ IsPlain("B", doc[4])

C9_NormalizerProjection ==
    norm_pc = "twice" => norm_twice = norm_once

\* C10: a second run of the same processor object on the same document
\* rewrites both files with the content they already have.
C10_RerunSameFiles ==
    [][run >= 2 => (questions_file' = questions_file /\ answers_file' = answers_file)]_vars

\* the documents whose outputs the directory holds when the aggregator runs
OwnDocument ==
    [base |-> BaseName, has_answers |-> answers_file.exists,
     questions |-> WrittenQuestions, answers |-> WrittenAnswers]

DirectoryDocuments == {OwnDocument} \cup other_docs

\* the sum of the counts of a statistics table
RECURSIVE SumOf(_)
SumOf(stats) ==
    IF DOMAIN stats = {} THEN 0
    ELSE LET b == CHOOSE x \in DOMAIN stats : TRUE
         IN stats[b] + SumOf([x \in DOMAIN stats \ {b} |-> stats[x]])

\* C11: after the aggregator has run on a directory, every document of the
\* directory that has both files is in the statistics with the count
\* min(number of its question entries, number of its answer entries), and the
\* returned total is the sum of the counts in the statistics.
C11_CountIsMinTotalIsSum ==
    pc = "aggregated" =>
        /\ \A d \in DirectoryDocuments :
              d.has_answers =>
                  /\ d.base \in DOMAIN file_statistics
                  /\ file_statistics[d.base] = Min(Len(d.questions), Len(d.answers))
        /\ total_records = SumOf(file_statistics)

\* every written entry is one line of its file
EntriesAreLines ==
    /\ \A i \in 1..Len(WrittenQuestions) : ~Contains(WrittenQuestions[i], <<NL>>)
    /\ \A i \in 1..Len(WrittenAnswers) : ~Contains(WrittenAnswers[i], <<NL>>)

\* an entry without its index token: what follows the closing bracket,
\* without the whitespace around it
WithoutIndexToken(entry) == Strip(From(entry, Find(entry, <<CB>>) + 1))

\* C12: when the aggregator reads the file pair of a document whose entries
\* are one line each (the directory holds no other file), the question and
\* the answer of corpus record i are question entry i and answer entry i
\* without their index token; an entry that is its index token alone gives
\* the empty string.
C12_IndexTokenRemoved ==
    (pc = "aggregated" /\ other_docs = {} /\ EntriesAreLines) =>
        \A i \in 1..Len(combined_data) :
            /\ combined_data[i].question = WithoutIndexToken(WrittenQuestions[i])
            /\ combined_data[i].answer = WithoutIndexToken(WrittenAnswers[i])

\* the head of entry i as the format asks for it: the index in the digits of
\* the script, the closing bracket, one space
EntryHead(i) == MapDigits(TIBETAN_DIGITS, i) \o <<CB, SP>>

\* C13: in every variant the i-th question entry and the i-th answer entry
\* start with the index i written in the ten digits of the script, followed
\* by the closing bracket and one space; the text comes after that.
C13_EntryFormat ==
    /\ \A i \in 1..Len(WrittenQuestions) : StartsWith(WrittenQuestions[i], EntryHead(i))
    /\ \A i \in 1..Len(WrittenAnswers) : StartsWith(WrittenAnswers[i], EntryHead(i))

EndsWithTseg(text) == text # << >> /\ text[Len(text)] = TSEG

\* C14: in variant E a line without a bracketed marker is appended to the
\* question exactly when a record is open and the question text accumulated
\* so far ends with a tseg; in every other case it is appended to the answer
\* lines.  The test reads the accumulated question only, never the new line.
C14_TsegDecidesContinuation ==
    [][ ( /\ variant = "E"
          /\ pc = "parsing"
          /\ pos' = pos + 1
          /\ question_pattern(doc[pos + 1]) = 0 ) =>
            IF current_question # << >> /\ EndsWithTseg(TextOf(current_question))
            THEN /\ current_question' = current_question \o <<SP>> \o doc[pos + 1]
                 /\ current_answer' = current_answer
            ELSE /\ current_question' = current_question
                 /\ current_answer' = Append(current_answer, doc[pos + 1]) ]_vars

\* C14 witness: the same line twice after a question that ends with a tseg:
\* the first copy has joined the question, the second the answer.
C14_Witness ==
    /\ variant = "E"
    /\ pc = "parsing"
    /\ pos = 3
    /\ question_pattern(doc[1]) # 0
    /\ question_pattern(doc[2]) = 0
    /\ doc[3] = doc[2]
    /\ ~EndsWithTseg(doc[2])
    /\ TextOf(current_question) = <<"a", TSEG>> \o <<SP>> \o doc[2]
    /\ current_answer = <<doc[3]>>

\* the last marker line among the first n lines of a variant D document, 0
\* when there is none
RECURSIVE LastMarker(_)
LastMarker(n) ==
    IF n = 0 THEN 0
    ELSE IF alphabet_pattern(doc[n]) THEN n
    ELSE LastMarker(n - 1)

\* C15: in variant D, while the loop runs, the question buffer of the open
\* record is its marker line and the first line after it, and the answer
\* buffer is every later line up to the current one, whatever the lines
\* contain; the question buffer never has more than two lines, and with no
\* marker line yet both buffers are empty.
C15_FirstBodyLineIsQuestion ==
    (variant = "D" /\ pc = "parsing") =>
        LET m == LastMarker(pos)
        IN /\ Len(current_question) <= 2
           /\ m = 0 => (current_question = << >> /\ current_answer = << >>)
           /\ m > 0 =>
                 /\ current_question = SubSeq(doc, m, Min(m + 1, pos))
                 /\ current_answer = SubSeq(doc, m + 2, pos)

\* C15 witness: a marker and three body lines, the first two alike: the
\* first is in the question buffer, the second and third in the answer buffer.
C15_Witness ==
    /\ variant = "D"
    /\ pc = "parsing"
    /\ pos = 4
    /\ LastMarker(pos) = 1
    /\ doc[3] = doc[2]
    /\ current_question = <<doc[1], doc[2]>>
    /\ current_answer = <<doc[3], doc[4]>>

\* the variants that have an answer keyword
AnswerKeywordVariants == {"B", "C", "F"}

\* C16: in variants B, C and F, in a document that starts with a
\* QuestionStart line, the AnswerStart lines between two QuestionStart lines
\* go to one answer entry: there are never more answer entries than
\* QuestionStart lines.
C16_OneAnswerEntryPerRecord ==
    ( /\ pc = "parsed"
      /\ variant \in AnswerKeywordVariants
      /\ doc # << >>
      /\ IsQuestionStart(variant, doc[1]) ) =>
        Len(WrittenAnswers) <= NumQuestionStarts

\* the positions of the QuestionStart lines of a variant A document, in order
IsQuestionPositionA(i) == initial_number_pattern(doc[i])
QuestionPositionsA == SelectSeq([i \in 1..Len(doc) |-> i], IsQuestionPositionA)

\* where the record of the k-th QuestionStart line ends: before the next
\* QuestionStart line, or with the document
RecordEndA(k) ==
    IF k < Len(QuestionPositionsA) THEN QuestionPositionsA[k + 1] - 1 ELSE Len(doc)

\* an answer line as the answer entry holds it: without a leading answer
\* prefix (keyword and space)
AnswerLineA(line) ==
    IF StartsWith(line, LAN_SP) THEN From(line, Len(LAN_SP) + 1) ELSE line

C18_UnreadableSourceIsReported ==
    (pc = "failed" /\ ~source_readable) => outcome # Returned(0)

\* C19: in every extractor, when the write of the questions file or of the
\* answers file fails, the caller sees a failure: the exception reaches it,
\* the call does not return.
C19_WriteFailureIsReported ==
    (pc = "failed" /\ source_readable) => outcome = Raised

\* no whitespace at either end, no line feed, no two whitespace characters
\* in a row
IsCollapsed(text) ==
    /\ Strip(text) = text
    /\ ~Contains(text, <<NL>>)
    /\ \A i \in 1..(Len(text) - 1) :
          ~(text[i] \in Whitespace /\ text[i + 1] \in Whitespace)

\* C20: in every variant the text of every question entry and of every
\* answer entry has no whitespace at its ends and no run of whitespace other
\* than one space; a line break between two fragments is one space too.
C20_WhitespaceCollapsed ==
    /\ \A i \in 1..Len(WrittenQuestions) : IsCollapsed(TextOf(WrittenQuestions[i]))
    /\ \A i \in 1..Len(WrittenAnswers) : IsCollapsed(TextOf(WrittenAnswers[i]))


\* s without the first occurrence of sub
WithoutFirst(s, sub) ==
    LET i == Find(s, sub)
    IN IF i = 0 THEN s ELSE SubSeq(s, 1, i - 1) \o From(s, i + Len(sub))

\* C21: when a line is classified by a marker (the leading answer keyword in
\* variant F, the bracketed numeral in variant E, the answer keyword in
\* variant G), the text that is kept of it is the line without the first
\* occurrence of that marker, trimmed: every other character, a later copy of
\* the marker included, stays, in order.
C21_OnlyTheMarkerIsRemoved ==
    [][ (pc = "parsing" /\ pos' = pos + 1) =>
          /\ (variant = "F" /\ IsAnswerStart("F", doc[pos + 1])) =>
                 current_answer' = <<Strip(WithoutFirst(doc[pos + 1], LAN))>>
          /\ (variant = "E" /\ question_pattern(doc[pos + 1]) # 0) =>
                 TextOf(current_question') =
                     Strip(WithoutFirst(doc[pos + 1], MatchGroup0(doc[pos + 1])))
          /\ (variant = "G" /\ Contains(doc[pos + 1], LAN)) =>
                 TextOf(answers'[Len(answers')]) =
                     Strip(WithoutFirst(doc[pos + 1], LAN)) ]_vars


\* the copies of the encoder that return the digits alone, and those that
\* put the closing bracket behind them
PlainCopies == {"qa_2", "qa_3", "qa_6", "qa_7"}
BracketedCopies == {"qa", "html_parser"}

RECURSIVE Pow10(_)
Pow10(k) == IF k = 0 THEN 1 ELSE 10 * Pow10(k - 1)

\* the number of decimal digits of n, and the j-th of them from the left
NumDigits(n) == CHOOSE k \in 1..6 : Pow10(k - 1) <= n /\ n < Pow10(k)
DigitAt(n, j) == (n \div Pow10(NumDigits(n) - j)) % 10

\* C22: for every positive n each plain copy of the encoder returns as many
\* symbols as n has decimal digits, the j-th being the alphabet symbol of the
\* j-th digit of n; each bracketed copy returns that string followed by the
\* closing bracket; so the copies of each mode agree on every n.
C22_EncoderDigitwise ==
    enc_pc = "done" =>
        /\ \A c \in PlainCopies :
              /\ Len(enc_out[c]) = NumDigits(enc_n)
              /\ \A j \in 1..NumDigits(enc_n) :
                    enc_out[c][j] = TIBETAN_DIGITS[DigitAt(enc_n, j) + 1]
        /\ \A c \in BracketedCopies : enc_out[c] = enc_out["qa_2"] \o <<CB>>

\* C22 witness: a number of four digits with zeros inside, encoded by every
\* copy.
C22_Witness ==
    /\ enc_pc = "done"
    /\ enc_n = 1005
    /\ enc_out["qa_7"] = <<"t1", "t0", "t0", "t5">>
    /\ enc_out["html_parser"] = <<"t1", "t0", "t0", "t5", CB>>


\* the lines the aggregator reads from the two files of a document of the
\* directory
QuestionLines(d) ==
    parse_text_file(IF d.base = BaseName THEN questions_file.text
                    ELSE FileText("A", d.questions))
AnswerLines(d) ==
    parse_text_file(IF d.base = BaseName THEN answers_file.text
                    ELSE FileText("A", d.answers))

\* the documents of the directory that have both files
PairedDocuments == {d \in DirectoryDocuments : d.has_answers}

\* the position of the first corpus record with the provenance b
FirstRecordOf(b) ==
    CHOOSE r \in 1..Len(combined_data) :
        /\ combined_data[r].filename = b
        /\ \A q \in 1..(r - 1) : combined_data[q].filename # b

\* C23: after the aggregator has run, the provenance of every corpus record
\* is the base name of a document of the directory that has both files, and
\* the record holds a line of that document's questions file and the line at
\* the same place of its answers file; the records of one document are
\* contiguous and in the order of the lines; the number of records is the
\* returned total.
C23_ProvenanceAndOrder ==
    pc = "aggregated" =>
        /\ Len(combined_data) = total_records
        /\ \A r \in 1..Len(combined_data) :
              \E d \in PairedDocuments :
                  LET k == r - FirstRecordOf(d.base) + 1
                  IN /\ combined_data[r].filename = d.base
                     /\ \A q \in FirstRecordOf(d.base)..r :
                           combined_data[q].filename = d.base
                     /\ k <= Len(QuestionLines(d))
                     /\ k <= Len(AnswerLines(d))
                     /\ combined_data[r].question = SplitLast(QuestionLines(d)[k])
                     /\ combined_data[r].answer = SplitLast(AnswerLines(d)[k])


\* C24: when a document that was parsed alone is parsed again by the same
\* code beside a parse of another document, whichever of the two runs first
\* and wherever the driver switches between them, the second parse ends with
\* the question entries and the answer entries of the first.
C24_DocumentsIsolated ==
    alone.done =>
        /\ (~suspended.target /\ pc = "parsed") =>
               (questions = alone.questions /\ answers = alone.answers)
        /\ (suspended.target /\ suspended.pc = "parsed") =>
               /\ suspended.questions = alone.questions
               /\ suspended.answers = alone.answers

\* C24 witness: both parses are over, each document gave a question entry,
\* and the two documents differ.
C24_Witness ==
    /\ alone.done
    /\ ~suspended.target
    /\ pc = "parsed"
    /\ suspended.pc = "parsed"
    /\ suspended.doc # doc
    /\ questions # << >>
    /\ suspended.questions # << >>
    /\ suspended.questions # questions


\* the position of the first QuestionStart line of the document, one past
\* the end when there is none
RECURSIVE FirstQuestionStartFrom(_)
FirstQuestionStartFrom(i) ==
    IF i > Len(doc) \/ IsQuestionStart(variant, doc[i]) THEN i
    ELSE FirstQuestionStartFrom(i + 1)

FirstQuestionStart == FirstQuestionStartFrom(1)

\* the text of a line: the line without a leading answer keyword
LineText(v, line) ==
    CASE v = "A" /\ StartsWith(line, LAN_SP) -> Strip(From(line, Len(LAN_SP) + 1))
      [] v \in {"B", "F", "G"} /\ StartsWith(line, LAN) -> Strip(From(line, Len(LAN) + 1))
      [] v = "C" -> clean_answer_text(line)
      [] OTHER -> Strip(line)

\* the lines before the first QuestionStart line whose text occurs in no
\* line from the first QuestionStart line on
LeadingLines ==
    {i \in 1..(FirstQuestionStart - 1) :
        /\ LineText(variant, doc[i]) # << >>
        /\ \A j \in FirstQuestionStart..Len(doc) :
               ~Contains(doc[j], LineText(variant, doc[i]))}

\* C25: in every variant, after the loop, the text of a line that precedes
\* the first QuestionStart line (and occurs in no later line) is part of no
\* question entry and of no answer entry.
C25_LeadingLinesDropped ==
    pc = "parsed" =>
        \A i \in LeadingLines :
            /\ \A k \in 1..Len(WrittenQuestions) :
                   ~Contains(WrittenQuestions[k], LineText(variant, doc[i]))
            /\ \A k \in 1..Len(WrittenAnswers) :
                   ~Contains(WrittenAnswers[k], LineText(variant, doc[i]))


\* the positions of the QuestionStart lines of a variant F document, in order
IsQuestionPositionF(i) == dotted_index(doc[i])
QuestionPositionsF == SelectSeq([i \in 1..Len(doc) |-> i], IsQuestionPositionF)

\* where the record of the k-th QuestionStart line ends
RecordEndF(k) ==
    IF k < Len(QuestionPositionsF) THEN QuestionPositionsF[k + 1] - 1 ELSE Len(doc)

\* the answer text the lines p..e give: the keyword line without its
\* keyword, the lines joined with one space
AnswerTextF(p, e) ==
    joined_qa7([j \in 1..(e - p + 1) |-> LineText("F", doc[p + j - 1])])

\* the answer-keyword lines of the record of the k-th QuestionStart line
KeywordLinesF(k) ==
    {p \in (QuestionPositionsF[k] + 1)..RecordEndF(k) : StartsWith(doc[p], LAN)}

\* C26: in variant F, after the loop of a first run on a document that
\* starts with a QuestionStart line and has at most one answer-keyword line
\* in each record, the i-th answer entry is made of lines that lie after the
\* i-th QuestionStart line and before the next one (or the end of the
\* document), for every i, also when a record has no answer line.
C26_AnswerStaysInItsRecord ==
    ( /\ variant = "F"
      /\ pc = "parsed"
      /\ run = 1
      /\ doc # << >>
      /\ dotted_index(doc[1])
      /\ \A k \in 1..Len(QuestionPositionsF) : Cardinality(KeywordLinesF(k)) <= 1 ) =>
        \A i \in 1..Len(answers) :
            /\ i <= Len(QuestionPositionsF)
            /\ \E p \in (QuestionPositionsF[i] + 1)..RecordEndF(i) :
                  \E e \in p..RecordEndF(i) : answers[i] = AnswerTextF(p, e)


\* the variants whose open record has a question part and an answer part
\* that a line without marker can join
TwoPhaseVariants == {"B", "D", "E", "F"}

\* the parser is in InAnswer: the flag is_answer of qa_3.py and qa_7.py, a
\* question buffer that is full in qa_5.py, a question text that does not
\* end with a tseg (or no question) in qa_6.py
InAnswer ==
    CASE variant \in {"B", "F"} -> is_answer
      [] variant = "D" -> Len(current_question) >= 2
      [] variant = "E" -> current_question = << >> \/ ~tseg_pattern(current_question)
      [] OTHER -> FALSE

\* C27: in variants B, D, E and F, a loop step on a line that is not a
\* QuestionStart line puts the parser in InAnswer when it appends the line
\* to the answer, and when the parser is in InAnswer the step leaves the
\* question as it is and the parser in InAnswer: after the first answer line
\* of a record nothing joins its question before the next QuestionStart.
C27_QuestionThenAnswer ==
    [][ ( /\ variant \in TwoPhaseVariants
          /\ pc = "parsing"
          /\ pos' = pos + 1
          /\ ~IsQuestionStart(variant, doc[pos + 1]) ) =>
            /\ (current_answer' # current_answer \/ answers' # answers) => InAnswer'
            /\ InAnswer => (current_question' = current_question /\ InAnswer') ]_vars

\* C27 witness: variant B after a question line, a keyword line and two
\* plain lines: both plain lines are in the answer, the question is the
\* question line alone.
C27_Witness ==
    /\ variant = "B"
    /\ pc = "parsing"
    /\ pos = 4
    /\ IsQuestionStart("B", doc[1])
    /\ IsAnswerStart("B", doc[2])
    /\ IsPlain("B", doc[3])
    /\ IsPlain("B", doc[4])
    /\ current_question = doc[1]
    /\ current_answer = <<LineText("B", doc[2]), doc[3], doc[4]>>


\* the questions files of the directory that have no answers file with
\* their base name
LoneQuestionsFiles ==
    {QuestionsName(d.base) : d \in {x \in DirectoryDocuments : ~x.has_answers}}

IsNotLone(filename) == filename \notin LoneQuestionsFiles

\* what the aggregator returns for the directory without those files, the
\* other files listed in the same order
WithoutLoneFiles ==
    LET dir == Directory(other_docs)
        rest == [n \in (DOMAIN dir) \ LoneQuestionsFiles |-> dir[n]]
        order == SelectSeq(listing, IsNotLone)
        passes == [i \in 1..Len(order) |-> combine_file(rest, order[i])]
    IN [combined_data |-> AllPairs(passes),
        total_records |-> SumCounts(passes),
        file_statistics |-> Statistics(passes)]

\* C28: when the directory holds a questions file without an answers file
\* of the same base name, the aggregator returns what it returns for the
\* directory without that file: the same records, the same total, the same
\* statistics.
C28_LoneQuestionsFileIgnored ==
    (pc = "aggregated" /\ LoneQuestionsFiles # {}) =>
        /\ combined_data = WithoutLoneFiles.combined_data
        /\ total_records = WithoutLoneFiles.total_records
        /\ file_statistics = WithoutLoneFiles.file_statistics


\* C29: after every run, ended by the second write or by a failure, the two
\* files of the document are there together or not at all, and a questions
\* file that holds the questions of this run has beside it the answers file
\* of this run.
C29_PairWrittenByOneRun ==
    pc \in {"saved", "failed"} =>
        /\ questions_file.exists = answers_file.exists
        /\ (questions_file.exists /\ questions_file.text = FileText(variant, questions)) =>
               answers_file.text = FileText(variant, answers)

====
